---- MODULE Spec2Model ----
(***************************************************************************)
(* Model of src/internal_llm.py: the question loader, the index setup, the *)
(* batch mode (executar_bateria_testes) and the comparative mode           *)
(* (benchmark_interativo), with the file system they share.                *)
(*                                                                         *)
(* Texts are sequences of one-character strings, so that strip, slicing    *)
(* and startswith are computed on the characters as Python computes them.  *)
(***************************************************************************)
EXTENDS Naturals, Sequences, FiniteSets, TLC

VARIABLES
    pc,            \* position of the running process in main / the mode it runs
    model_name,    \* the model selected by select_model (batch mode)
    arquivo,       \* perguntas.csv: whether it exists, and its raw lines
    perguntas,     \* the list returned by carregar_perguntas
    avisos,        \* what carregar_perguntas printed, as a sequence of tags
    i,             \* number of questions of the batch already processed
    resultados,    \* batch mode: the list of result rows
    relatorio,     \* batch mode: the final "answered/total" line, or <<>>
    question,      \* comparative mode: the question being processed
    k,             \* comparative mode: number of RAG models already run
    df_resultados, \* comparative mode: the rows of the DataFrame
    nperguntas,    \* comparative mode: questions entered so far
    exports,       \* the CSV files on disk: file name -> rows
    now,           \* the wall clock, in seconds
    corpus,        \* the PDF directory: the entries os.listdir returns
    snapshot,      \* the persisted FAISS index: <<>> or <<its chunks>>
    spc,           \* per process: position inside the index setup
    chunks,        \* per process: the chunks split from the loaded documents
    relatados,     \* per process: the files load_documents reported as failed
    vectorstore,   \* per process: the index held in memory, <<>> when none
    docs,          \* the chunks returned by the last similarity_search
    saves,         \* the processes that called save_local, in order
    chamadas,      \* every responder invocation made, with its outcome
    nruns          \* runs started from the menu so far

vars == <<pc, model_name, arquivo, perguntas, avisos, i, resultados, relatorio,
          question, k, df_resultados, nperguntas, exports, now, corpus,
          snapshot, spc, chunks, relatados, vectorstore, docs, saves, chamadas, nruns>>

-----------------------------------------------------------------------------
(* Text helpers: Python's str operations on sequences of characters.       *)

Min(a, b) == IF a <= b THEN a ELSE b

\* c * n
Rep(c, n) == [j \in 1..n |-> c]

\* the characters str.strip() removes
Whitespace == {" ", "\t", "\n", "\r"}

\* s.strip(): drops leading and trailing whitespace, keeps inner whitespace
RECURSIVE FirstKept(_, _)
FirstKept(s, j) ==
    IF j > Len(s) \/ s[j] \notin Whitespace THEN j ELSE FirstKept(s, j + 1)
RECURSIVE LastKept(_, _)
LastKept(s, j) ==
    IF j < 1 \/ s[j] \notin Whitespace THEN j ELSE LastKept(s, j - 1)
Strip(s) == SubSeq(s, FirstKept(s, 1), LastKept(s, Len(s)))

\* s[:n]
Take(s, n) == SubSeq(s, 1, Min(n, Len(s)))

\* s.startswith(p)
StartsWith(s, p) == Len(s) >= Len(p) /\ SubSeq(s, 1, Len(p)) = p

\* s.lower() over the letters the model uses
Lower(s) ==
    [j \in 1..Len(s) |->
        CASE s[j] = "S" -> "s" [] s[j] = "A" -> "a" [] s[j] = "I" -> "i"
          [] s[j] = "R" -> "r" [] s[j] = "E" -> "e" [] s[j] = "O" -> "o"
          [] OTHER -> s[j]]

-----------------------------------------------------------------------------
(* carregar_perguntas                                                      *)

\* the literal header, the end flag and the expected number of questions
Perguntas == <<"P", "e", "r", "g", "u", "n", "t", "a", "s">>
EndFlag == <<"/", "e", "n", "d">>
ExpectedPerguntas == 100

\* LerLinhas with the break of line 418 lost: the flag is skipped and the
\* lines after it are read as well
RECURSIVE LerLinhasSemBreak(_, _, _, _)
LerLinhasSemBreak(f, j, acc, ultima) ==
    IF j > Len(f) THEN [perguntas |-> acc, linha |-> ultima]
    ELSE LET linha == Strip(f[j])
         IN  IF linha # <<>> /\ linha # EndFlag
             THEN LerLinhasSemBreak(f, j + 1, Append(acc, linha), linha)
             ELSE LerLinhasSemBreak(f, j + 1, acc, linha)

\* the loop of lines 415-421 from line j on: the questions collected and the
\* last value of the loop variable `linha`
RECURSIVE LerLinhas(_, _, _, _)
LerLinhas(f, j, acc, ultima) ==
    IF j > Len(f) THEN [perguntas |-> acc, linha |-> ultima]
    ELSE LET linha == Strip(f[j])
         IN  IF linha = EndFlag THEN [perguntas |-> acc, linha |-> linha]
             ELSE IF linha # <<>> THEN LerLinhas(f, j + 1, Append(acc, linha), linha)
             ELSE LerLinhas(f, j + 1, acc, linha)

\* carregar_perguntas(): the list returned and the messages printed
carregar_perguntas(f) ==
    IF ~f.existe
    THEN [perguntas |-> <<>>, avisos |-> <<"erro_arquivo">>]
    ELSE LET cabecalho == IF Len(f.linhas) = 0 THEN <<>> ELSE Strip(f.linhas[1])
         IN  IF cabecalho # Perguntas
             THEN [perguntas |-> <<>>, avisos |-> <<"erro_cabecalho">>]
             ELSE LET r == LerLinhas(f.linhas, 2, <<>>, <<>>)
                  IN  IF r.perguntas = <<>>
                      THEN [perguntas |-> <<>>, avisos |-> <<"erro_vazio">>]
                      ELSE [perguntas |-> r.perguntas,
                            avisos |->
                              (IF Len(r.perguntas) # ExpectedPerguntas
                               THEN <<"aviso_100">> ELSE <<>>)
                              \o (IF r.linha # EndFlag
                                  THEN <<"aviso_end">> ELSE <<>>)
                              \o <<"ok">>]

-----------------------------------------------------------------------------
(* Inputs                                                                  *)

\* bounds of the model
MaxLinhas == 3

\* AVAILABLE_MODELS, in select_model's order
AVAILABLE_MODELS == <<"mistral", "llama2", "tinyllama", "llama2_raw">>

\* raw lines a question file may hold after its header
QA == <<"a", "?">>
QB == <<"b", " ", "b">>
LinhasCarga ==
    { <<"\n">>, <<" ", "\t", "\n">>,
      QA \o <<"\n">>, <<" ">> \o QB \o <<" ", "\n">>,
      EndFlag \o <<"\n">>, <<" ">> \o EndFlag \o <<"\r", "\n">>,
      EndFlag \o <<"x", "\n">> }

\* first lines: the header, the header with surrounding whitespace, a wrong one
Cabecalhos ==
    { Perguntas \o <<"\n">>, <<" ">> \o Perguntas \o <<" ", "\n">>,
      <<"P", "e", "r", "g", "u", "n", "t", "a", "\n">> }

\* all sequences over S of length at most n
SeqAte(S, n) == UNION { [1..m -> S] : m \in 0..n }

\* the question files of the loader's specification
Arquivo(l) == [existe |-> TRUE, linhas |-> l]
ArquivoAusente == [existe |-> FALSE, linhas |-> <<>>]
ArquivosCarga ==
    {ArquivoAusente, Arquivo(<<>>)}
    \cup { Arquivo(<<c>> \o l) :
              c \in Cabecalhos, l \in SeqAte(LinhasCarga, MaxLinhas) }

MaxPerguntas == 2
MaxDigitadas == 1
MaxNow == 62
MaxRuns == 2
MaxSetups == 3
MaxArquivos == 3

\* the slices of the stored texts, and similarity_search's k
PERGUNTA_MAX == 80
RESPOSTA_MAX == 500
RESPOSTA_BATERIA_MAX == 2000
TOP_K == 5
SegundosPorMinuto == 60

\* lines of the question files of a batch run: a short and a long question
QLonga == Rep("q", PERGUNTA_MAX + 4)
LinhasBateria == { QA \o <<"\n">>, QLonga \o <<"\n">> }
ArquivosBateria ==
    {ArquivoAusente}
    \cup { Arquivo(<<Perguntas \o <<"\n">>>> \o l) :
              l \in SeqAte(LinhasBateria, MaxPerguntas) }

\* what the user may type at the comparative mode's prompt
Sair == <<"s", "a", "i", "r">>
Digitadas == { <<" ", "S", "a", "i", "r", " ">>, Sair,
               <<" ">> \o QA \o <<" ">>, Rep("q", PERGUNTA_MAX + 1) }

\* texts a model may answer and messages a failed invocation may carry
RespCurta == <<"o", "k", "\n">>
RespErros == <<"E", "R", "R", "O", "S", " ", "c", "o", "m", "u", "n", "s">>
RespLonga == Rep("x", RESPOSTA_BATERIA_MAX + 1)
RespMargem == <<" ">> \o Rep("y", RESPOSTA_MAX)
ErroMsg == <<"d", "o", "w", "n">>

\* outcomes of one responder invocation: success with a text, or failure
\* with a message, after d seconds
Saida(ok, texto, d) == [ok |-> ok, texto |-> texto, d |-> d]
SaidasBateria ==
    { Saida(TRUE, t, d) : t \in {RespCurta, RespErros, RespLonga}, d \in {0, 1} }
    \cup { Saida(FALSE, ErroMsg, d) : d \in {0, 1} }
SaidasBenchmark ==
    { Saida(TRUE, RespCurta, 1), Saida(TRUE, RespMargem, 1),
      Saida(FALSE, ErroMsg, 0) }

\* PDF_DIR, as the components of the path
PDF_DIR == <<".", "base_tcc">>

\* an entry of os.listdir(PDF_DIR): the file's name in two parts, the number
\* of chunks each of its pages splits into, and whether PyPDFLoader parses it
Entrada(base, ext, paginas, legivel) ==
    [base |-> base, ext |-> ext, paginas |-> paginas, legivel |-> legivel]
NomeArquivo(e) == e.base \o e.ext

\* pdf_file.endswith(".pdf"): the comparison is case-sensitive
endswith_pdf(e) == e.ext = ".pdf"

\* a page as PyPDFLoader returns it, and a chunk as the splitter returns it:
\* both carry the path of the file and the 0-based page number
Document(source, page, partes) ==
    [source |-> source, page |-> page, partes |-> partes]
Chunk(source, page) == [source |-> source, page |-> page]

\* loader.load(): one document per page of the file, in page order
PyPDFLoader_load(e) ==
    [n \in 1..Len(e.paginas) |->
        Document(PDF_DIR \o <<NomeArquivo(e)>>, n - 1, e.paginas[n])]

\* load_documents with the try around the whole loop: the first file that
\* fails ends the loading
RECURSIVE load_documentsAteFalha(_, _, _)
load_documentsAteFalha(dir, documents, erros) ==
    IF dir = <<>> THEN [documents |-> documents, erros |-> erros]
    ELSE LET pdf_file == Head(dir) IN
         IF ~endswith_pdf(pdf_file)
         THEN load_documentsAteFalha(Tail(dir), documents, erros)
         ELSE IF pdf_file.legivel
         THEN load_documentsAteFalha(Tail(dir),
                  documents \o PyPDFLoader_load(pdf_file), erros)
         ELSE [documents |-> documents,
               erros |-> Append(erros, NomeArquivo(pdf_file))]

\* load_documents: the loop over os.listdir(PDF_DIR); documents is the list
\* returned, erros the files whose failure was printed
RECURSIVE load_documents(_, _, _)
load_documents(dir, documents, erros) ==
    IF dir = <<>> THEN [documents |-> documents, erros |-> erros]
    ELSE LET pdf_file == Head(dir) IN
         IF ~endswith_pdf(pdf_file)
         THEN load_documents(Tail(dir), documents, erros)
         ELSE IF pdf_file.legivel
         THEN load_documents(Tail(dir),
                  documents \o PyPDFLoader_load(pdf_file), erros)
         ELSE load_documents(Tail(dir), documents,
                  Append(erros, NomeArquivo(pdf_file)))

\* text_splitter.split_documents: every page gives its chunks, in order, each
\* with the page's metadata
RECURSIVE split_documents(_)
split_documents(ds) ==
    IF ds = <<>> THEN <<>>
    ELSE [n \in 1..Head(ds).partes |-> Chunk(Head(ds).source, Head(ds).page)]
         \o split_documents(Tail(ds))

\* the content of the corpus directory: two directories and the empty one
DirA == << Entrada("doc1", ".pdf", <<2>>, TRUE),
           Entrada("leia", ".txt", <<1>>, TRUE),
           Entrada("ruim", ".pdf", <<1>>, FALSE),
           Entrada("doc2", ".pdf", <<2, 2>>, TRUE) >>
DirB == << Entrada("doc3", ".pdf", <<1>>, TRUE) >>
Corpora == {DirA, DirB, <<>>}

\* the chunks the two directories split into
CorpusA == split_documents(load_documents(DirA, <<>>, <<>>).documents)
CorpusB == split_documents(load_documents(DirB, <<>>, <<>>).documents)

\* the processes that may run an index setup
Procs == {"main", "other"}

-----------------------------------------------------------------------------
(* Index setup: setup_rag_system lines 142-161; benchmark_interativo       *)
(* repeats the same steps in lines 281-298.                                *)

\* load_documents + split_documents: the chunks of the corpus as it is now
SetupDocs(p) ==
    /\ spc[p] = "docs"
    /\ LET carga == load_documents(corpus, <<>>, <<>>) IN
         /\ chunks' = [chunks EXCEPT ![p] = split_documents(carga.documents)]
         /\ relatados' = [relatados EXCEPT ![p] = carga.erros]
    /\ spc' = [spc EXCEPT ![p] = "check"]
    /\ UNCHANGED <<snapshot, vectorstore, saves>>

\* SetupCheck with the existence test lost: the index is always rebuilt
SetupCheckSempreCria(p) ==
    /\ spc[p] = "check"
    /\ spc' = [spc EXCEPT ![p] = "build"]
    /\ UNCHANGED <<snapshot, chunks, relatados, vectorstore, saves>>

\* os.path.exists(FAISS_INDEX)
SetupCheck(p) ==
    /\ spc[p] = "check"
    /\ spc' = [spc EXCEPT ![p] = IF snapshot # <<>> THEN "load" ELSE "build"]
    /\ UNCHANGED <<snapshot, chunks, relatados, vectorstore, saves>>

\* FAISS.load_local: the index is the persisted one; fails when it is gone
SetupLoad(p) ==
    /\ spc[p] = "load"
    /\ IF snapshot # <<>>
       THEN /\ vectorstore' = [vectorstore EXCEPT ![p] = snapshot]
            /\ spc' = [spc EXCEPT ![p] = "ready"]
       ELSE /\ spc' = [spc EXCEPT ![p] = "failed"]
            /\ UNCHANGED vectorstore
    /\ UNCHANGED <<snapshot, chunks, relatados, saves>>

\* FAISS.from_documents: the index of the chunks just split, or an exception
SetupBuild(p) ==
    /\ spc[p] = "build"
    /\ \E ok \in BOOLEAN :
         IF ok
         THEN /\ vectorstore' = [vectorstore EXCEPT ![p] = <<chunks[p]>>]
              /\ spc' = [spc EXCEPT ![p] = "save"]
         ELSE /\ spc' = [spc EXCEPT ![p] = "failed"]
              /\ UNCHANGED vectorstore
    /\ UNCHANGED <<snapshot, chunks, relatados, saves>>

\* SetupSave as an exclusive create: a snapshot already there is kept
SetupSaveExclusivo(p) ==
    /\ spc[p] = "save"
    /\ snapshot' = IF snapshot = <<>> THEN vectorstore[p] ELSE snapshot
    /\ saves' = Append(saves, p)
    /\ spc' = [spc EXCEPT ![p] = "ready"]
    /\ UNCHANGED <<chunks, relatados, vectorstore>>

\* vectorstore.save_local(FAISS_INDEX): no existence check, no lock
SetupSave(p) ==
    /\ spc[p] = "save"
    /\ snapshot' = vectorstore[p]
    /\ saves' = Append(saves, p)
    /\ spc' = [spc EXCEPT ![p] = "ready"]
    /\ UNCHANGED <<chunks, relatados, vectorstore>>

\* one step of the index setup of process p
SetupStep(p) ==
    \/ SetupDocs(p)
    \/ SetupCheck(p)
    \/ SetupLoad(p)
    \/ SetupBuild(p)
    \/ SetupSave(p)

\* vectorstore.similarity_search(question, k): at most k chunks of the index,
\* most similar first. The ranking is the embedding model's; the model fixes
\* one: the stored order for QA, the reverse order for any other question.
Reverse(s) == [j \in 1..Len(s) |-> s[Len(s) + 1 - j]]
similarity_search(vs, q, kk) ==
    LET idx == vs[1] IN Take(IF q = QA THEN idx ELSE Reverse(idx), kk)

\* os.path.basename(source)
basename(path) == path[Len(path)]

\* JoinFontes over the distinct pages: a chunk of the same page as the one
\* before it adds no entry
RECURSIVE JoinFontesSemRepetir(_)
JoinFontesSemRepetir(ds) ==
    IF ds = <<>> THEN ""
    ELSE LET um == basename(ds[1].source) \o " (p." \o ToString(ds[1].page) \o ")"
         IN  IF Len(ds) = 1 THEN um
             ELSE IF ds[2] = ds[1] THEN JoinFontesSemRepetir(Tail(ds))
             ELSE um \o "; " \o JoinFontesSemRepetir(Tail(ds))

\* "; ".join(f"{basename(source)} (p.{page})" for d in docs)
RECURSIVE JoinFontes(_)
JoinFontes(ds) ==
    IF ds = <<>> THEN ""
    ELSE LET um == basename(ds[1].source) \o " (p." \o ToString(ds[1].page) \o ")"
         IN  IF Len(ds) = 1 THEN um ELSE um \o "; " \o JoinFontes(Tail(ds))

-----------------------------------------------------------------------------
(* The running process: main's menu, batch mode and comparative mode       *)

setupVars == <<snapshot, spc, chunks, relatados, vectorstore, saves>>
bateriaVars == <<perguntas, avisos, i, resultados, relatorio>>
benchVars == <<question, k, df_resultados, nperguntas>>

\* a step of process p's index setup leaves the rest alone
Setup(p) ==
    /\ SetupStep(p)
    /\ UNCHANGED <<pc, model_name, arquivo, bateriaVars, benchVars, exports,
                   now, corpus, docs, chamadas, nruns>>

\* one row of a result list
Row(modelo, pergunta, tempo, resposta, fontes) ==
    [Modelo |-> modelo, Pergunta |-> pergunta, Tempo |-> tempo,
     Resposta |-> resposta, Fontes |-> fontes]

\* one responder invocation, as the history records it: the model, the
\* question, the chunks its retrieval returned (none for the control
\* configuration) and the text or the failure it ended with
Chamada(modelo, rag, pergunta, achados, saida) ==
    [modelo |-> modelo, rag |-> rag, pergunta |-> pergunta, docs |-> achados,
     ok |-> saida.ok, texto |-> saida.texto]

\* f"ERRO: {str(e)}"
ErroPrefixo == <<"E", "R", "R", "O">>
ErroTexto(msg) == ErroPrefixo \o <<":", " ">> \o msg

\* writing a CSV file: a file of the same name is replaced
to_csv(fs, nome, linhas) ==
    {e \in fs : e.nome # nome} \cup {[nome |-> nome, linhas |-> linhas]}

\* main, choice "3": select_model, then executar_bateria_testes(model_name);
\* `arquivos` are the contents perguntas.csv may have when the run starts
EscolherBateria(arquivos) ==
    /\ pc = "menu"
    /\ \E m \in 1..Len(AVAILABLE_MODELS) : model_name' = AVAILABLE_MODELS[m]
    /\ arquivo' \in arquivos
    /\ pc' = "bateria"
    /\ nruns' = nruns + 1
    /\ UNCHANGED <<bateriaVars, benchVars, exports, now, corpus, setupVars,
                   docs, chamadas>>

\* Carregar with the return of lines 458-459 lost: the run goes on with the
\* empty list
CarregarSemRetorno ==
    /\ pc = "bateria"
    /\ LET r == carregar_perguntas(arquivo)
       IN  /\ perguntas' = r.perguntas
           /\ avisos' = r.avisos
           /\ IF model_name = "llama2_raw"
              THEN pc' = "loop" /\ UNCHANGED spc
              ELSE pc' = "setup" /\ spc' = [spc EXCEPT !["main"] = "docs"]
    /\ i' = 0
    /\ resultados' = <<>>
    /\ UNCHANGED <<model_name, arquivo, relatorio, benchVars, exports, now,
                   corpus, snapshot, chunks, relatados, vectorstore, saves, docs,
                   chamadas, nruns>>

\* executar_bateria_testes, lines 457-466 and 496: the questions are loaded;
\* an empty list ends the run, a RAG model starts the index setup
Carregar ==
    /\ pc = "bateria"
    /\ LET r == carregar_perguntas(arquivo)
       IN  /\ perguntas' = r.perguntas
           /\ avisos' = r.avisos
           /\ IF r.perguntas = <<>>
              THEN pc' = "fim" /\ UNCHANGED spc
              ELSE IF model_name = "llama2_raw"
              THEN pc' = "loop" /\ UNCHANGED spc
              ELSE pc' = "setup" /\ spc' = [spc EXCEPT !["main"] = "docs"]
    /\ i' = 0
    /\ resultados' = <<>>
    /\ UNCHANGED <<model_name, arquivo, relatorio, benchVars, exports, now,
                   corpus, snapshot, chunks, relatados, vectorstore, saves, docs,
                   chamadas, nruns>>

\* setup_rag_system returned: lines 163-179 and 497-500
BateriaIniciar ==
    /\ pc = "setup"
    /\ spc["main"] = "ready"
    /\ pc' = "loop"
    /\ UNCHANGED <<model_name, arquivo, bateriaVars, benchVars, exports, now,
                   corpus, setupVars, docs, chamadas, nruns>>

\* setup_rag_system raised: main's except of lines 628-634 ends the run
BateriaFalha ==
    /\ pc = "setup"
    /\ spc["main"] = "failed"
    /\ pc' = "fim"
    /\ UNCHANGED <<model_name, arquivo, bateriaVars, benchVars, exports, now,
                   corpus, setupVars, docs, chamadas, nruns>>

\* BateriaRowOk with the slice of the response lost
BateriaRowOkInteira(pergunta, saida, fontes) ==
    Row(model_name, pergunta, saida.d, saida.texto, fontes)

\* the row of lines 475-481 (control) and 515-521 (RAG)
BateriaRowOk(pergunta, saida, fontes) ==
    Row(model_name, pergunta, saida.d,
        Take(saida.texto, RESPOSTA_BATERIA_MAX), fontes)

\* BateriaRowErro with the measured time in place of 0
BateriaRowErroComTempo(pergunta, saida) ==
    Row(model_name, pergunta, saida.d, ErroTexto(saida.texto), "N/A")

\* the row of the except branches, lines 487-493 and 527-533
BateriaRowErro(pergunta, saida) ==
    Row(model_name, pergunta, 0, ErroTexto(saida.texto), "N/A")

\* BateriaAnexar with the except branch only printing, as the comparative
\* mode does
BateriaAnexarSoSucesso(rs, pergunta, saida, fontes) ==
    IF saida.ok THEN Append(rs, BateriaRowOk(pergunta, saida, fontes)) ELSE rs

\* the try/except of lines 472-493 and 506-533: one row either way
BateriaAnexar(rs, pergunta, saida, fontes) ==
    Append(rs, IF saida.ok THEN BateriaRowOk(pergunta, saida, fontes)
               ELSE BateriaRowErro(pergunta, saida))

\* one iteration of the loop of lines 468-493 (control) or 502-533 (RAG)
BateriaPergunta ==
    /\ pc = "loop"
    /\ i < Len(perguntas)
    /\ \E saida \in SaidasBateria :
         LET pergunta == perguntas[i + 1]
             rag == model_name # "llama2_raw"
             modelo == IF rag THEN model_name ELSE "llama2"
             achados == IF rag
                        THEN similarity_search(vectorstore["main"], pergunta, TOP_K)
                        ELSE docs
             fontes == IF rag THEN JoinFontes(achados)
                       ELSE "N/A (resposta controle)"
         IN  /\ now + saida.d <= MaxNow
             /\ now' = now + saida.d
             /\ docs' = IF saida.ok THEN achados ELSE docs
             /\ chamadas' = Append(chamadas,
                    Chamada(modelo, rag, pergunta,
                            IF rag THEN achados ELSE <<>>, saida))
             /\ resultados' = BateriaAnexar(resultados, pergunta, saida, fontes)
    /\ i' = i + 1
    /\ UNCHANGED <<pc, model_name, arquivo, perguntas, avisos, relatorio,
                   benchVars, exports, corpus, setupVars, nruns>>

\* strftime("%Y%m%d_%H%M"): the clock to the minute
Minuto(t) == t \div SegundosPorMinuto

\* len([r for r in resultados if not r['Resposta'].startswith('ERRO')])
Respondidas(rs) ==
    Cardinality({j \in 1..Len(rs) : ~StartsWith(rs[j].Resposta, ErroPrefixo)})

\* lines 535-541: the export and the final count
BateriaSalvar ==
    /\ pc = "loop"
    /\ i = Len(perguntas)
    /\ exports' = to_csv(exports, <<"resultados", model_name, Minuto(now)>>,
                         resultados)
    /\ relatorio' = <<[respondidas |-> Respondidas(resultados),
                       total |-> Len(perguntas)]>>
    /\ pc' = "fim"
    /\ UNCHANGED <<model_name, arquivo, perguntas, avisos, i, resultados,
                   benchVars, now, corpus, setupVars, docs, chamadas, nruns>>

\* modelos_rag, lines 333-337: model names and display names
modelos_rag == << <<"mistral", "Mistral (RAG)">>,
                  <<"llama2", "Llama2 (RAG)">>,
                  <<"tinyllama", "TinyLlama (RAG)">> >>

\* question[:80] + ("..." if len(question) > 80 else "")
PerguntaGuardada(q) ==
    Take(q, PERGUNTA_MAX)
    \o (IF Len(q) > PERGUNTA_MAX THEN <<".", ".", ".">> ELSE <<>>)

\* response.strip()[:500] + ("..." if len(response) > 500 else "")
RespostaGuardada(r) ==
    Take(Strip(r), RESPOSTA_MAX)
    \o (IF Len(r) > RESPOSTA_MAX THEN <<".", ".", ".">> ELSE <<>>)

\* main, choice "2": benchmark_interativo starts by loading the documents
EscolherBenchmark ==
    /\ pc = "menu"
    /\ pc' = "b_setup"
    /\ spc' = [spc EXCEPT !["main"] = "docs"]
    /\ nruns' = nruns + 1
    /\ UNCHANGED <<model_name, arquivo, bateriaVars, benchVars, exports, now,
                   corpus, snapshot, chunks, relatados, vectorstore, saves, docs, chamadas>>

\* lines 300-307: the empty DataFrame, once the vectorstore is there
BenchIniciar ==
    /\ pc = "b_setup"
    /\ spc["main"] = "ready"
    /\ pc' = "b_input"
    /\ df_resultados' = <<>>
    /\ nperguntas' = 0
    /\ UNCHANGED <<model_name, arquivo, bateriaVars, question, k, exports, now,
                   corpus, setupVars, docs, chamadas, nruns>>

\* the index could not be built or loaded: the exception leaves
\* benchmark_interativo and nothing is exported
BenchFalha ==
    /\ pc = "b_setup"
    /\ spc["main"] = "failed"
    /\ pc' = "fim"
    /\ UNCHANGED <<model_name, arquivo, bateriaVars, benchVars, exports, now,
                   corpus, setupVars, docs, chamadas, nruns>>

\* lines 311-313: the prompt; 'sair' in any case leaves the loop
BenchEntrada ==
    /\ pc = "b_input"
    /\ \E digitada \in Digitadas :
         LET q == Strip(digitada)
         IN  IF Lower(q) = Sair
             THEN /\ pc' = "b_salvar"
                  /\ UNCHANGED <<question, nperguntas>>
             ELSE /\ nperguntas < MaxDigitadas
                  /\ question' = q
                  /\ nperguntas' = nperguntas + 1
                  /\ pc' = "b_controle"
    /\ UNCHANGED <<model_name, arquivo, bateriaVars, k, df_resultados, exports,
                   now, corpus, setupVars, docs, chamadas, nruns>>

\* lines 318-330: the control configuration; a failure is only printed
BenchControle ==
    /\ pc = "b_controle"
    /\ \E saida \in SaidasBenchmark :
         /\ now + saida.d <= MaxNow
         /\ now' = now + saida.d
         /\ chamadas' = Append(chamadas,
                Chamada("llama2", FALSE, question, <<>>, saida))
         /\ df_resultados' =
              IF saida.ok
              THEN Append(df_resultados,
                          Row("llama2 (CONTROLE)", PerguntaGuardada(question),
                              saida.d, RespostaGuardada(saida.texto),
                              "N/A (resposta controle)"))
              ELSE df_resultados
    /\ pc' = "b_rag"
    /\ k' = 0
    /\ UNCHANGED <<model_name, arquivo, bateriaVars, question, nperguntas,
                   exports, corpus, setupVars, docs, nruns>>

\* lines 339-378: one iteration of the loop over modelos_rag
BenchRag ==
    /\ pc = "b_rag"
    /\ k < Len(modelos_rag)
    /\ \E saida \in SaidasBenchmark :
         LET achados == similarity_search(vectorstore["main"], question, TOP_K)
         IN  /\ now + saida.d <= MaxNow
             /\ now' = now + saida.d
             /\ docs' = IF saida.ok THEN achados ELSE docs
             /\ chamadas' = Append(chamadas,
                                   Chamada(modelos_rag[k + 1][1], TRUE, question,
                                           achados, saida))
             /\ df_resultados' =
                  IF saida.ok
                  THEN Append(df_resultados,
                              Row(modelos_rag[k + 1][2], PerguntaGuardada(question),
                                  saida.d, RespostaGuardada(saida.texto),
                                  JoinFontes(achados)))
                  ELSE df_resultados
    /\ k' = k + 1
    /\ pc' = IF k + 1 = Len(modelos_rag) THEN "b_input" ELSE "b_rag"
    /\ UNCHANGED <<model_name, arquivo, bateriaVars, question, nperguntas,
                   exports, corpus, setupVars, nruns>>

\* lines 381-393: the export, only when the DataFrame is not empty
BenchSalvar ==
    /\ pc = "b_salvar"
    /\ exports' = IF df_resultados # <<>>
                  THEN to_csv(exports, <<"benchmark", now>>, df_resultados)
                  ELSE exports
    /\ pc' = "fim"
    /\ UNCHANGED <<model_name, arquivo, bateriaVars, benchVars, now, corpus,
                   setupVars, docs, chamadas, nruns>>

\* setup_rag_system without the special case of lines 139-140: the control
\* model goes through the index setup like any other
setup_rag_systemSemCasoRaw(m) == "docs"

\* setup_rag_system(model_name), lines 138-142: where the call stands after
\* its first test; "none" is the return of (None, None), "docs" the start of
\* the index setup
setup_rag_system(m) == IF m = "llama2_raw" THEN "none" ELSE "docs"

\* a call of setup_rag_system with any of the model names
ChamarSetup ==
    /\ pc = "menu"
    /\ \E m \in 1..Len(AVAILABLE_MODELS) :
         /\ model_name' = AVAILABLE_MODELS[m]
         /\ spc' = [spc EXCEPT !["main"] = setup_rag_system(AVAILABLE_MODELS[m])]
    /\ pc' = "chamada"
    /\ nruns' = nruns + 1
    /\ UNCHANGED <<arquivo, bateriaVars, benchVars, exports, now, corpus,
                   snapshot, chunks, relatados, vectorstore, saves, docs,
                   chamadas>>

\* main, choice "1", lines 569-595: select_model; the control model goes
\* straight to its question loop, a RAG model sets the index up first
EscolherIndividual ==
    /\ pc = "menu"
    /\ \E m \in 1..Len(AVAILABLE_MODELS) :
         /\ model_name' = AVAILABLE_MODELS[m]
         /\ IF AVAILABLE_MODELS[m] = "llama2_raw"
            THEN pc' = "i_input" /\ UNCHANGED spc
            ELSE /\ pc' = "i_setup"
                 /\ spc' = [spc EXCEPT
                              !["main"] = setup_rag_system(AVAILABLE_MODELS[m])]
    /\ nruns' = nruns + 1
    /\ UNCHANGED <<arquivo, bateriaVars, benchVars, exports, now, corpus,
                   snapshot, chunks, relatados, vectorstore, saves, docs,
                   chamadas>>

\* setup_rag_system returned, lines 595-597
IndividualIniciar ==
    /\ pc = "i_setup"
    /\ spc["main"] = "ready"
    /\ pc' = "i_input"
    /\ UNCHANGED <<model_name, arquivo, bateriaVars, benchVars, exports, now,
                   corpus, setupVars, docs, chamadas, nruns>>

\* setup_rag_system raised: the exception leaves main, lines 648-653
IndividualFalha ==
    /\ pc = "i_setup"
    /\ spc["main"] = "failed"
    /\ pc' = "fim"
    /\ UNCHANGED <<model_name, arquivo, bateriaVars, benchVars, exports, now,
                   corpus, setupVars, docs, chamadas, nruns>>

\* one iteration of the question loop, lines 578-592 (control) and 599-617
\* (RAG): 'sair' leaves the mode; the answer and its sources are only printed
IndividualPergunta ==
    /\ pc = "i_input"
    /\ \E digitada \in Digitadas :
         LET q == Strip(digitada)
             rag == model_name # "llama2_raw"
             modelo == IF rag THEN model_name ELSE "llama2"
         IN  IF Lower(q) = Sair
             THEN /\ pc' = "fim"
                  /\ UNCHANGED <<question, nperguntas, now, docs, chamadas>>
             ELSE /\ nperguntas < MaxDigitadas
                  /\ question' = q
                  /\ nperguntas' = nperguntas + 1
                  /\ pc' = "i_input"
                  /\ \E saida \in SaidasBenchmark :
                       LET achados ==
                             IF rag
                             THEN similarity_search(vectorstore["main"], q, TOP_K)
                             ELSE <<>>
                       IN  /\ now + saida.d <= MaxNow
                           /\ now' = now + saida.d
                           /\ docs' = IF rag /\ saida.ok THEN achados ELSE docs
                           /\ chamadas' = Append(chamadas,
                                  Chamada(modelo, rag, q, achados, saida))
    /\ UNCHANGED <<model_name, arquivo, bateriaVars, k, df_resultados, exports,
                   corpus, setupVars, nruns>>

-----------------------------------------------------------------------------
(* Specifications                                                          *)

\* the state of a process that has not run anything yet
Parado ==
    /\ pc = "menu"
    /\ model_name = "llama2_raw"
    /\ perguntas = <<>> /\ avisos = <<>> /\ i = 0
    /\ resultados = <<>> /\ relatorio = <<>>
    /\ question = <<>> /\ k = 0 /\ df_resultados = <<>> /\ nperguntas = 0
    /\ exports = {} /\ now = 0
    /\ spc = [p \in Procs |-> "idle"]
    /\ chunks = [p \in Procs |-> <<>>]
    /\ relatados = [p \in Procs |-> <<>>]
    /\ vectorstore = [p \in Procs |-> <<>>]
    /\ docs = <<>> /\ saves = <<>> /\ chamadas = <<>> /\ nruns = 0

\* one run of batch or comparative mode, over any question file of
\* ArquivosBateria, with the index persisted by an earlier run or not
Init ==
    /\ Parado
    /\ arquivo = ArquivoAusente
    /\ corpus = DirA
    /\ snapshot \in {<<>>, <<CorpusB>>}

Next ==
    \/ EscolherBateria(ArquivosBateria)
    \/ Carregar
    \/ Setup("main")
    \/ BateriaIniciar
    \/ BateriaFalha
    \/ BateriaPergunta
    \/ BateriaSalvar
    \/ EscolherBenchmark
    \/ BenchIniciar
    \/ BenchFalha
    \/ BenchEntrada
    \/ BenchControle
    \/ BenchRag
    \/ BenchSalvar

Spec == Init /\ [][Next]_vars

\* main's loop, lines 565-566: the mode is over and the menu is shown again;
\* the locals of the finished mode are gone
Voltar ==
    /\ pc = "fim"
    /\ nruns < MaxRuns
    /\ pc' = "menu"
    /\ perguntas' = <<>> /\ avisos' = <<>> /\ i' = 0
    /\ resultados' = <<>> /\ relatorio' = <<>>
    /\ question' = <<>> /\ k' = 0 /\ df_resultados' = <<>> /\ nperguntas' = 0
    /\ spc' = [spc EXCEPT !["main"] = "idle"]
    /\ chunks' = [chunks EXCEPT !["main"] = <<>>]
    /\ relatados' = [relatados EXCEPT !["main"] = <<>>]
    /\ vectorstore' = [vectorstore EXCEPT !["main"] = <<>>]
    /\ docs' = <<>>
    /\ chamadas' = <<>>
    /\ UNCHANGED <<model_name, arquivo, exports, now, corpus, snapshot, saves,
                   nruns>>

\* time passes while the menu waits for input
Tick ==
    /\ pc = "menu"
    /\ now + SegundosPorMinuto <= MaxNow
    /\ now' = now + SegundosPorMinuto
    /\ UNCHANGED <<pc, model_name, arquivo, bateriaVars, benchVars, exports,
                   corpus, setupVars, docs, chamadas, nruns>>

\* the question file of the repeated runs: one question, closed by /end
ArquivosRepetidos ==
    { Arquivo(<<Perguntas \o <<"\n">>, QA \o <<"\n">>, EndFlag \o <<"\n">>>>) }

\* batch runs one after the other from the same menu
NextRuns ==
    \/ EscolherBateria(ArquivosRepetidos)
    \/ Carregar
    \/ Setup("main")
    \/ BateriaIniciar
    \/ BateriaFalha
    \/ BateriaPergunta
    \/ BateriaSalvar
    \/ Voltar
    \/ Tick

SpecRuns == Init /\ [][NextRuns]_vars

\* the loader over every question file of ArquivosCarga
NextLoad ==
    \/ EscolherBateria(ArquivosCarga)
    \/ Carregar

SpecLoad == Init /\ [][NextLoad]_vars

\* question files that give no question: no file, an empty file, a wrong
\* first line, a header alone, a header followed by blank lines, and a
\* header whose first non-blank line is the end flag
ArquivosSemPerguntas ==
    { ArquivoAusente,
      Arquivo(<<>>),
      Arquivo(<<QA \o <<"\n">>, QB \o <<"\n">>, EndFlag \o <<"\n">>>>),
      Arquivo(<<<<"p", "e", "r", "g", "u", "n", "t", "a", "s", "\n">>,
                QA \o <<"\n">>>>),
      Arquivo(<<Perguntas \o <<"\n">>>>),
      Arquivo(<<Perguntas \o <<"\n">>, <<"\n">>, <<" ", "\n">>>>),
      Arquivo(<<Perguntas \o <<"\n">>, <<"\n">>, EndFlag \o <<"\n">>,
                QA \o <<"\n">>>>) }

\* one batch run, over a question file that gives questions or gives none
NextBateria ==
    \/ EscolherBateria(ArquivosSemPerguntas \cup ArquivosBateria)
    \/ Carregar
    \/ Setup("main")
    \/ BateriaIniciar
    \/ BateriaFalha
    \/ BateriaPergunta
    \/ BateriaSalvar

SpecBateria == Init /\ [][NextBateria]_vars

\* one run of batch mode or of single-question mode, or one call of
\* setup_rag_system, with any of the model names
NextControle ==
    \/ EscolherBateria(ArquivosBateria)
    \/ Carregar
    \/ Setup("main")
    \/ BateriaIniciar
    \/ BateriaFalha
    \/ BateriaPergunta
    \/ BateriaSalvar
    \/ EscolherIndividual
    \/ IndividualIniciar
    \/ IndividualFalha
    \/ IndividualPergunta
    \/ ChamarSetup

SpecControle == Init /\ [][NextControle]_vars

-----------------------------------------------------------------------------
(* The index setup on its own: runs that set the index up, one after the   *)
(* other or two at a time, while the corpus and the snapshot change        *)

\* a process reaches its index setup (main line 595, or lines 496 and 281)
Iniciar(p) ==
    /\ spc[p] = "idle"
    /\ nruns < MaxSetups
    /\ spc' = [spc EXCEPT ![p] = "docs"]
    /\ nruns' = nruns + 1
    /\ UNCHANGED <<pc, model_name, arquivo, bateriaVars, benchVars, exports,
                   now, corpus, snapshot, chunks, relatados, vectorstore, docs, saves,
                   chamadas>>

\* generate_response, line 202: a retrieval served by the index in memory
Buscar(p) ==
    /\ spc[p] = "ready"
    /\ \E q \in {QA, QLonga} :
         docs' = similarity_search(vectorstore[p], q, TOP_K)
    /\ UNCHANGED <<pc, model_name, arquivo, bateriaVars, benchVars, exports,
                   now, corpus, setupVars, chamadas, nruns>>

\* the run of process p is over; what it held in memory is gone
Encerrar(p) ==
    /\ spc[p] \in {"ready", "failed"}
    /\ spc' = [spc EXCEPT ![p] = "idle"]
    /\ chunks' = [chunks EXCEPT ![p] = <<>>]
    /\ relatados' = [relatados EXCEPT ![p] = <<>>]
    /\ vectorstore' = [vectorstore EXCEPT ![p] = <<>>]
    /\ docs' = <<>>
    /\ UNCHANGED <<pc, model_name, arquivo, bateriaVars, benchVars, exports,
                   now, corpus, snapshot, saves, chamadas, nruns>>

\* the operator changes the PDF directory
MudarCorpus ==
    /\ \E c \in Corpora \ {corpus} : corpus' = c
    /\ UNCHANGED <<pc, model_name, arquivo, bateriaVars, benchVars, exports,
                   now, setupVars, docs, chamadas, nruns>>

\* the operator deletes the persisted index between two runs
ApagarSnapshot ==
    /\ snapshot # <<>>
    /\ \A p \in Procs : spc[p] = "idle"
    /\ snapshot' = <<>>
    /\ UNCHANGED <<pc, model_name, arquivo, bateriaVars, benchVars, exports,
                   now, corpus, spc, chunks, relatados, vectorstore, docs, saves, chamadas,
                   nruns>>

InitIndex ==
    /\ Parado
    /\ arquivo = ArquivoAusente
    /\ corpus = DirA
    /\ snapshot = <<>>

\* runs of one process at a time
NextIndex ==
    \/ Iniciar("main")
    \/ Setup("main")
    \/ Buscar("main")
    \/ Encerrar("main")
    \/ MudarCorpus
    \/ ApagarSnapshot

SpecIndex == InitIndex /\ [][NextIndex]_vars

\* two processes setting the index up at the same time
NextRace ==
    \/ \E p \in Procs : Iniciar(p)
    \/ \E p \in Procs : Setup(p)
    \/ MudarCorpus

SpecRace == InitIndex /\ [][NextRace]_vars

\* the entries a directory listing is made of: PDF files and others, of one
\* page or of two, parsed by PyPDFLoader or not
PaginasDe(base) == IF base = "b" THEN <<2, 1>> ELSE <<1>>
EntradasDir ==
    { Entrada(b, e, PaginasDe(b), l) :
        b \in {"a", "b", "c"}, e \in {".pdf", ".txt"}, l \in BOOLEAN }

\* every listing of at most MaxArquivos entries; no name comes twice
Diretorios ==
    { d \in SeqAte(EntradasDir, MaxArquivos) :
        \A m, n \in 1..Len(d) :
            NomeArquivo(d[m]) = NomeArquivo(d[n]) => m = n }

InitDocs ==
    /\ Parado
    /\ arquivo = ArquivoAusente
    /\ corpus \in Diretorios
    /\ snapshot = <<>>

\* index setups, one after the other, over any directory of Diretorios
NextDocs ==
    \/ Iniciar("main")
    \/ Setup("main")
    \/ Encerrar("main")

SpecDocs == InitDocs /\ [][NextDocs]_vars

-----------------------------------------------------------------------------
(* Properties                                                              *)

\* the run is a batch run past its setup
EmBateria == pc \in {"loop", "fim"} /\ perguntas # <<>> /\ spc["main"] # "failed"

\* the comparative run is between two questions, or past the last one
EntrePerguntas == pc \in {"b_input", "b_salvar"}

\* the display names of the four configurations, in the order of the run
Configuracoes == <<"llama2 (CONTROLE)", "Mistral (RAG)", "Llama2 (RAG)",
                   "TinyLlama (RAG)">>

\* the invocations of the history that returned without failure
Sucessos == {j \in 1..Len(chamadas) : chamadas[j].ok}

\* C1: in comparative mode every question entered adds exactly one row for
\* each of the four configurations, in order, whether the invocation
\* succeeded or failed.
C1_UmaLinhaPorConfiguracao ==
    EntrePerguntas =>
        /\ Len(df_resultados) = Len(Configuracoes) * nperguntas
        /\ \A j \in 1..Len(df_resultados) :
             df_resultados[j].Modelo
                = Configuracoes[((j - 1) % Len(Configuracoes)) + 1]

\* C2: a batch or comparative run that attempted at least one question has
\* written, when it ends, an export holding a row for every invocation,
\* successful or failed.
C2_SempreExporta ==
    (pc = "fim" /\ chamadas # <<>>) =>
        \E e \in exports : Len(e.linhas) = Len(chamadas)

\* C3: in batch mode, after the setup, the questions are processed in file
\* order and each adds exactly one row before the next starts: the rows and
\* the invocations made so far are those of the first i questions, and a
\* finished run has one row per question.
C3_UmaLinhaPorPergunta ==
    EmBateria =>
        /\ Len(resultados) = i
        /\ Len(chamadas) = i
        /\ i <= Len(perguntas)
        /\ \A j \in 1..Len(resultados) :
             /\ resultados[j].Pergunta = perguntas[j]
             /\ resultados[j].Modelo = model_name
             /\ j <= Len(chamadas) => chamadas[j].pergunta = perguntas[j]
        /\ pc = "fim" => Len(resultados) = Len(perguntas)

C3_Witness ==
    /\ EmBateria /\ pc = "fim"
    /\ Len(perguntas) = 2 /\ perguntas[1] # perguntas[2]
    /\ Len(resultados) = 2
    /\ chamadas[1].ok /\ ~chamadas[2].ok

\* C4: the count reported at the end of a batch run is the number of
\* invocations that returned without failure, out of the number of
\* questions loaded, whatever the texts the model returned.
C4_ContagemRespondidas ==
    (EmBateria /\ relatorio # <<>>) =>
        /\ relatorio[1].respondidas = Cardinality(Sucessos)
        /\ relatorio[1].total = Len(perguntas)

C9_LinhaDeErro ==
    EmBateria =>
        /\ \A j \in 1..Len(chamadas) :
             ~chamadas[j].ok =>
                /\ j <= Len(resultados)
                /\ resultados[j].Resposta
                     = <<"E", "R", "R", "O", ":", " ">> \o ErroMsg
                /\ resultados[j].Tempo = 0
                /\ resultados[j].Fontes = "N/A"
        /\ pc = "fim" => Len(chamadas) = Len(perguntas)

C9_Witness ==
    /\ EmBateria /\ pc = "fim"
    /\ Len(chamadas) = 2
    /\ ~chamadas[1].ok /\ chamadas[2].ok
    /\ resultados[1].Tempo = 0 /\ now = 2
    /\ model_name # "llama2_raw"

\* the lines of a file after its header
Corpo(f) == SubSeq(f.linhas, 2, Len(f.linhas))

\* the position of the first '/end' line of a body, or one past its end
PrimeiroEnd(b) ==
    LET fins == {j \in 1..Len(b) : Strip(b[j]) = EndFlag}
    IN  IF fins = {} THEN Len(b) + 1
        ELSE CHOOSE j \in fins : \A m \in fins : j <= m

\* the non-blank lines before the first '/end', stripped, in file order
NaoVazia(l) == l # <<>>
Esperadas(f) ==
    LET b == Corpo(f)
        antes == [j \in 1..(PrimeiroEnd(b) - 1) |-> Strip(b[j])]
    IN  SelectSeq(antes, NaoVazia)

\* the file exists and its first line is the header
CabecalhoValido(f) ==
    f.existe /\ Len(f.linhas) >= 1 /\ Strip(f.linhas[1]) = Perguntas

\* C10: for a file whose first line is the header, carregar_perguntas
\* returns exactly the non-blank lines between the header and the first
\* '/end' (or the end of the file), stripped, in file order; and a count
\* other than 100 only adds a warning to a successful load.
C10_PerguntasCarregadas ==
    (pc \notin {"menu", "bateria"} /\ CabecalhoValido(arquivo)) =>
        /\ perguntas = Esperadas(arquivo)
        /\ (perguntas # <<>> /\ Len(perguntas) # ExpectedPerguntas)
              => /\ avisos[1] = "aviso_100"
                 /\ avisos[Len(avisos)] = "ok"

C10_Witness ==
    /\ pc \notin {"menu", "bateria"} /\ CabecalhoValido(arquivo)
    /\ Len(arquivo.linhas) = 4
    /\ arquivo.linhas[2] # QB /\ Strip(arquivo.linhas[2]) = QB
    /\ Strip(arquivo.linhas[3]) = EndFlag /\ arquivo.linhas[3] # EndFlag \o <<"\n">>
    /\ Strip(arquivo.linhas[4]) = QA
    /\ perguntas = <<QB>>
    /\ avisos = <<"aviso_100", "ok">>

\* the chunks of a list of retrieved documents
Elementos(ds) == {ds[j] : j \in 1..Len(ds)}

\* C6: the index setup builds and saves exactly when no snapshot exists and
\* otherwise loads it; a snapshot, once written, is never overwritten (it
\* changes only by being deleted), and a run that is ready while a snapshot
\* exists holds that snapshot and serves its retrievals from it, whatever
\* the corpus has become.
C6_SnapshotReutilizado ==
    /\ [](/\ spc["main"] \in {"build", "save"} => snapshot = <<>>
          /\ (spc["main"] = "ready" /\ snapshot # <<>>)
                => /\ vectorstore["main"] = snapshot
                   /\ Elementos(docs) \subseteq Elementos(snapshot[1]))
    /\ [][/\ snapshot # <<>> => snapshot' \in {snapshot, <<>>}
          /\ (spc["main"] = "check" /\ spc'["main"] # "check")
                => spc'["main"] = IF snapshot = <<>> THEN "build" ELSE "load"
          /\ (spc["main"] = "load" /\ spc'["main"] # "load")
                => /\ spc'["main"] = "ready"
                   /\ vectorstore'["main"] = snapshot
                   /\ UNCHANGED <<snapshot, saves>>
          /\ (spc["main"] = "save" /\ spc'["main"] # "save")
                => snapshot' = <<chunks["main"]>>]_vars

C6_Witness ==
    /\ nruns >= 2
    /\ saves = <<"main">>
    /\ spc["main"] = "ready"
    /\ snapshot = <<CorpusA>>
    /\ corpus = DirB
    /\ chunks["main"] = CorpusB
    /\ vectorstore["main"] = snapshot
    /\ docs = Take(Reverse(CorpusA), TOP_K)

\* C7: with two processes in the index setup and no snapshot, both can pass
\* the existence check, build and save; after that the persisted snapshot
\* is the index of the process that saved last.
C7_UltimoGravadorVence ==
    saves # <<>> => snapshot = vectorstore[saves[Len(saves)]]

C7_Witness ==
    /\ \A p \in Procs : spc[p] = "ready"
    /\ Len(saves) = 2 /\ saves[1] # saves[2]
    /\ vectorstore[saves[1]] # vectorstore[saves[2]]
    /\ snapshot = vectorstore[saves[2]]

\* C8: no run's export replaces or changes the export file of an earlier
\* run: a file on disk stays as it is.
C8_ExportNuncaSobrescrito ==
    [][\A e \in exports : e \in exports']_vars

\* the readable PDF files of a listing, and the PDF files that fail to parse
PdfLegivel(e) == endswith_pdf(e) /\ e.legivel
PdfIlegivel(e) == endswith_pdf(e) /\ ~e.legivel

\* the chunks of the pages of the files of a listing, file after file
RECURSIVE ChunksDe(_)
ChunksDe(es) ==
    IF es = <<>> THEN <<>>
    ELSE LET e == es[1]
             pag(n) == [m \in 1..e.paginas[n] |->
                           Chunk(<<".", "base_tcc", e.base \o e.ext>>, n - 1)]
         IN  (IF Len(e.paginas) = 1 THEN pag(1) ELSE pag(1) \o pag(2))
             \o ChunksDe(Tail(es))

\* the index setup has loaded the documents
Carregados == spc["main"] \notin {"idle", "docs"}

\* C12: once the documents are loaded, what was loaded is the pages, in
\* listing order, of exactly the '.pdf' files that parsed; every '.pdf' file
\* that failed is reported, in listing order, and contributes nothing, and
\* the files after it are still loaded; a directory with no '.pdf' file
\* gives nothing loaded and nothing reported.
C12_DocumentosCarregados ==
    Carregados =>
        /\ chunks["main"] = ChunksDe(SelectSeq(corpus, PdfLegivel))
        /\ LET ruins == SelectSeq(corpus, PdfIlegivel) IN
             relatados["main"] = [n \in 1..Len(ruins) |-> NomeArquivo(ruins[n])]
        /\ (\A n \in 1..Len(corpus) : corpus[n].ext # ".pdf")
              => chunks["main"] = <<>> /\ relatados["main"] = <<>>

\* a file that fails to parse, between two files that are loaded
C12_Witness ==
    /\ Carregados
    /\ Len(corpus) = 3
    /\ PdfLegivel(corpus[1]) /\ PdfIlegivel(corpus[2]) /\ PdfLegivel(corpus[3])
    /\ relatados["main"] = <<NomeArquivo(corpus[2])>>
    /\ Len(corpus[1].paginas) = 2
    /\ Len(chunks["main"]) = 4
    /\ chunks["main"][1].source = <<".", "base_tcc", NomeArquivo(corpus[1])>>
    /\ chunks["main"][4].source = <<".", "base_tcc", NomeArquivo(corpus[3])>>

\* the question file gives no question: it is missing, its first line is not
\* the header, or no non-blank line comes before the end flag
SemPerguntas(f) ==
    \/ ~f.existe
    \/ f.linhas = <<>>
    \/ Strip(f.linhas[1]) # <<"P", "e", "r", "g", "u", "n", "t", "a", "s">>
    \/ \A j \in 2..Len(f.linhas) :
          Strip(f.linhas[j]) # <<>>
             => \E m \in 2..j : Strip(f.linhas[m]) = <<"/", "e", "n", "d">>

\* the error carregar_perguntas reports for such a file
ErroDeCarga(f) ==
    IF ~f.existe THEN "erro_arquivo"
    ELSE IF f.linhas = <<>> \/ Strip(f.linhas[1]) # Perguntas
    THEN "erro_cabecalho"
    ELSE "erro_vazio"

\* the batch run has called carregar_perguntas
Carregou == pc \notin {"menu", "bateria"}

\* C11: a batch run whose question file is missing, does not start with the
\* header or holds no question before the end flag gets an empty list and
\* exactly one error message from the loader, and is over at once: no index
\* setup has started, no document was read, no index loaded, built or
\* saved, no model invoked, no row added, nothing exported and no final
\* count reported.
C11_SemPerguntasSemEfeito ==
    (Carregou /\ SemPerguntas(arquivo)) =>
        /\ perguntas = <<>>
        /\ avisos = <<ErroDeCarga(arquivo)>>
        /\ pc = "fim"
        /\ spc["main"] = "idle"
        /\ chunks["main"] = <<>> /\ vectorstore["main"] = <<>>
        /\ saves = <<>> /\ docs = <<>>
        /\ chamadas = <<>> /\ resultados = <<>>
        /\ exports = {} /\ relatorio = <<>>

\* a RAG run over a file whose only question comes after the end flag
C11_Witness ==
    /\ Carregou
    /\ model_name = "mistral"
    /\ arquivo.existe /\ Len(arquivo.linhas) = 4
    /\ Strip(arquivo.linhas[1]) = Perguntas
    /\ Strip(arquivo.linhas[4]) = QA
    /\ avisos = <<"erro_vazio">>
    /\ pc = "fim"

\* the entry of one chunk: the file's name without its directory, then the
\* page number of the chunk's metadata
FonteDe(d) == d.source[Len(PDF_DIR) + 1] \o " (p." \o ToString(d.page) \o ")"

\* the entries of the first n chunks of ds, in order, separated by "; "
RECURSIVE FontesAte(_, _)
FontesAte(ds, n) ==
    IF n = 0 THEN ""
    ELSE IF n = 1 THEN FonteDe(ds[1])
    ELSE FontesAte(ds, n - 1) \o "; " \o FonteDe(ds[n])

\* the 'Fontes' field a successful invocation's row must carry
FontesEsperadas(c) ==
    IF c.rag THEN FontesAte(c.docs, Len(c.docs)) ELSE "N/A (resposta controle)"

\* the successful invocations of the history, in order
FoiSucesso(c) == c.ok
ChamadasComSucesso == SelectSeq(chamadas, FoiSucesso)

\* C13: every successful row's 'Fontes' is made from the chunks the
\* retrieval of its invocation returned: one 'file-name (p.page)' entry per
\* chunk, in retrieval order, joined by '; ', for a RAG row, and the literal
\* 'N/A (resposta controle)' for a control row. In batch mode row j belongs
\* to invocation j; in comparative mode the rows are those of the
\* successful invocations, in order.
C13_FontesDaRecuperacao ==
    /\ \A j \in 1..Len(chamadas) :
         /\ Len(chamadas[j].docs) <= TOP_K
         /\ chamadas[j].rag
               => chamadas[j].docs
                    = similarity_search(vectorstore["main"],
                                        chamadas[j].pergunta, TOP_K)
    /\ EmBateria =>
         \A j \in 1..Len(resultados) :
            chamadas[j].ok
               => resultados[j].Fontes = FontesEsperadas(chamadas[j])
    /\ pc \in {"b_input", "b_controle", "b_rag", "b_salvar"} =>
         /\ Len(df_resultados) = Len(ChamadasComSucesso)
         /\ \A j \in 1..Len(df_resultados) :
              df_resultados[j].Fontes = FontesEsperadas(ChamadasComSucesso[j])

\* a comparative run over the index built from DirA: a control row and a
\* RAG row listing the five chunks retrieved, two of them of the same page
C13_Witness ==
    /\ pc = "b_rag"
    /\ Len(df_resultados) = 2
    /\ df_resultados[1].Fontes = "N/A (resposta controle)"
    /\ Len(chamadas[2].docs) = TOP_K
    /\ df_resultados[2].Fontes
         = "doc1.pdf (p.0); doc1.pdf (p.0); doc2.pdf (p.0); doc2.pdf (p.0); "
           \o "doc2.pdf (p.1)"

\* the text kept by a limit of n characters, with the marker exactly when
\* characters of the text were cut off
Marca == <<".", ".", ".">>
ComMarcaSeCortado(t, n) ==
    SubSeq(t, 1, Min(Len(t), n)) \o (IF Len(t) > n THEN Marca ELSE <<>>)

\* C14: in comparative mode every row stores the question entered, stripped,
\* cut to 80 characters, and the response returned, stripped, cut to 500
\* characters, each followed by '...' exactly when the stripped text was
\* longer than its limit.
C14_MarcaSeCortado ==
    pc \in {"b_input", "b_controle", "b_rag", "b_salvar"} =>
        \A j \in 1..Len(df_resultados) :
            j <= Len(ChamadasComSucesso) =>
                LET c == ChamadasComSucesso[j] IN
                /\ df_resultados[j].Pergunta
                     = ComMarcaSeCortado(Strip(c.pergunta), PERGUNTA_MAX)
                /\ df_resultados[j].Resposta
                     = ComMarcaSeCortado(Strip(c.texto), RESPOSTA_MAX)

\* a run or a call with the control model is under way or over
ComControle == model_name = "llama2_raw" /\ pc # "menu"

\* C15: with 'llama2_raw', a call of setup_rag_system returns with no index
\* and no effect, and a batch or single-question run never starts the index
\* setup: no document is read, no index is loaded, built or saved, no
\* retrieval is made, every invocation goes to the control responder
\* without chunks, and no step changes the persisted snapshot or the corpus.
C15_ControleSemRecuperacao ==
    /\ [](ComControle =>
            /\ spc["main"] = (IF pc = "chamada" THEN "none" ELSE "idle")
            /\ chunks["main"] = <<>> /\ relatados["main"] = <<>>
            /\ vectorstore["main"] = <<>>
            /\ saves = <<>> /\ docs = <<>>
            /\ \A j \in 1..Len(chamadas) :
                 /\ ~chamadas[j].rag
                 /\ chamadas[j].docs = <<>>
                 /\ chamadas[j].modelo = "llama2")
    /\ [][(model_name' = "llama2_raw" /\ pc' # "menu")
            => UNCHANGED <<snapshot, corpus, saves>>]_vars

\* a batch run with the control model that answered two questions and
\* exported its rows, beside a snapshot persisted by an earlier run
C15_Witness ==
    /\ ComControle
    /\ pc = "fim"
    /\ Len(perguntas) = 2 /\ Len(chamadas) = 2
    /\ chamadas[1].ok /\ chamadas[2].ok
    /\ exports # {}
    /\ snapshot = <<CorpusB>>

====
